---- MODULE Spec2Model ----
(***************************************************************************)
(* verify_biblo.py: the character-level entry parser read_entry, the entry *)
(* classes with validate and print, and the driver loop of __main__.       *)
(* Strings are sequences of one-character strings; the stream f is its     *)
(* text together with the number of characters already consumed (pos).     *)
(***************************************************************************)
EXTENDS Integers, Sequences, FiniteSets, TLC

\* ---------------------------------------------------------------- bounds
MaxLen == 5

\* ------------------------------------------------------- strings, dicts
EOF == ""
White == {" ", "\n", "\t", "\r"}

RECURSIVE lstrip(_)
lstrip(s) ==
    IF s # <<>> /\ Head(s) \in White THEN lstrip(Tail(s)) ELSE s

RECURSIVE rstrip(_)
rstrip(s) ==
    IF s # <<>> /\ s[Len(s)] \in White THEN rstrip(SubSeq(s, 1, Len(s) - 1)) ELSE s

strip(s) == rstrip(lstrip(s))

\* token[:-1]
drop_last(s) == IF s = <<>> THEN s ELSE SubSeq(s, 1, Len(s) - 1)

\* token += cur, where cur may be the empty string read at end of stream
cat(s, c) == IF c = EOF THEN s ELSE Append(s, c)

\* A dict is the sequence of its <<key, value>> items in insertion order.
dict_keys(d) == [i \in 1..Len(d) |-> d[i][1]]
dict_has(d, k) == \E i \in 1..Len(d) : d[i][1] = k
dict_get(d, k) == d[CHOOSE i \in 1..Len(d) : d[i][1] = k][2]
\* dict_set putting a key that is set again at the end (del d[k]; d[k] = v).
dict_set_moving_to_end(d, k, v) ==
    Append(SelectSeq(d, LAMBDA it : it[1] # k), <<k, v>>)

dict_set(d, k, v) ==
    IF dict_has(d, k)
    THEN [i \in 1..Len(d) |-> IF d[i][1] = k THEN <<k, v>> ELSE d[i]]
    ELSE Append(d, <<k, v>>)

\* ---------------------------------------------------------------- stream
\* f.read(1): the next character, or "" once the text is used up.
read1(f, p) == IF p < Len(f) THEN f[p + 1] ELSE EOF
advance(f, p) == IF p < Len(f) THEN p + 1 ELSE p

\* ----------------------------------------------------------------- state
VARIABLES
    f, pos,                       \* the stream: its text, characters consumed
    cur, token, depth, name, attr_name, attrs, typ, state,   \* read_entry locals
    pc,                           \* position inside read_entry
    entry,                        \* the value read_entry returned last
    valid,                        \* what entry.validate() returned last
    out,                          \* standard output: what was printed, in order
    fix, names, entries, main,    \* __main__: its locals and its position
    idx,                          \* __main__: index of the entry the print loop is at
    log,                          \* what __main__ did with each value read_entry returned
    input,                        \* how the text of f was put together
    mark                          \* where the '=', '{' and '}' of the last value were read

frame_vars == <<pos, cur, token, depth, name, attr_name, attrs, typ, state, pc, entry>>
main_vars == <<fix, names, entries, main, idx, log>>
vars == <<f, pos, cur, token, depth, name, attr_name, attrs, typ, state, pc, entry,
          valid, out, fix, names, entries, main, idx, log, input, mark>>

None == [kind |-> "None"]

BibloEntry(n, t, a) ==
    [kind |-> "BibloEntry", name |-> n, typ |-> t, attrs |-> a, errors |-> <<>>]
BookEntry(n, t, a) ==
    [kind |-> "BookEntry", name |-> n, typ |-> t, attrs |-> a, errors |-> <<>>]
ArticleEntry(n, t, a) ==
    [kind |-> "ArticleEntry", name |-> n, typ |-> t, attrs |-> a, errors |-> <<>>]
InProceedingsEntry(n, t, a) ==
    [kind |-> "InProceedingsEntry", name |-> n, typ |-> t, attrs |-> a, errors |-> <<>>]

S_book == <<"b", "o", "o", "k">>
S_article == <<"a", "r", "t", "i", "c", "l", "e">>
S_inproceedings == <<"i", "n", "p", "r", "o", "c", "e", "e", "d", "i", "n", "g", "s">>

\* The locals of one read_entry call as a record, with the stream position.
Frame ==
    [pos |-> pos, cur |-> cur, token |-> token, depth |-> depth, name |-> name,
     attr_name |-> attr_name, attrs |-> attrs, typ |-> typ, state |-> state,
     pc |-> pc, entry |-> entry]

\* read_entry's locals on entry to the function, the stream at position p.
new_frame(p) ==
    [pos |-> p, cur |-> " ", token |-> <<>>, depth |-> 0, name |-> <<>>,
     attr_name |-> <<>>, attrs |-> <<>>, typ |-> <<>>, state |-> "NONE",
     pc |-> "find_at", entry |-> None]

set_frame(F) ==
    /\ pos' = F.pos
    /\ cur' = F.cur
    /\ token' = F.token
    /\ depth' = F.depth
    /\ name' = F.name
    /\ attr_name' = F.attr_name
    /\ attrs' = F.attrs
    /\ typ' = F.typ
    /\ state' = F.state
    /\ pc' = F.pc
    /\ entry' = F.entry

frame_is(F) ==
    /\ pos = F.pos
    /\ cur = F.cur
    /\ token = F.token
    /\ depth = F.depth
    /\ name = F.name
    /\ attr_name = F.attr_name
    /\ attrs = F.attrs
    /\ typ = F.typ
    /\ state = F.state
    /\ pc = F.pc
    /\ entry = F.entry

\* ------------------------------------------------------------ read_entry
\* One iteration, or the exit, of: while cur != '@' and cur != '': cur = f.read(1)
find_at(t, F) ==
    IF F.cur # "@" /\ F.cur # EOF
    THEN [F EXCEPT !.cur = read1(t, F.pos), !.pos = advance(t, F.pos)]
    ELSE IF F.cur # "@" /\ F.cur # EOF
         THEN [F EXCEPT !.entry = None, !.pc = "done"]
         ELSE [F EXCEPT !.pc = "read_type"]

\* read_type with typ = token[:-1], the strip() forgotten.
read_type_no_strip(t, F) ==
    IF F.cur # "{" /\ F.cur # EOF
    THEN LET c == read1(t, F.pos)
         IN [F EXCEPT !.cur = c, !.pos = advance(t, F.pos), !.token = cat(F.token, c)]
    ELSE [F EXCEPT !.depth = F.depth + 1,
                   !.typ = drop_last(F.token),
                   !.token = <<>>,
                   !.pc = "read_name"]

\* One iteration of the type loop, or its exit: depth += 1; typ = token[:-1].strip()
read_type(t, F) ==
    IF F.cur # "{" /\ F.cur # EOF
    THEN LET c == read1(t, F.pos)
         IN [F EXCEPT !.cur = c, !.pos = advance(t, F.pos), !.token = cat(F.token, c)]
    ELSE IF F.cur # "{" /\ F.cur # EOF
         THEN [F EXCEPT !.entry = None, !.pc = "done"]
         ELSE [F EXCEPT !.depth = F.depth + 1,
                        !.typ = strip(drop_last(F.token)),
                        !.token = <<>>,
                        !.pc = "read_name"]

\* read_name with name = token[:-1], the strip() forgotten.
read_name_no_strip(t, F) ==
    IF F.cur # "," /\ F.cur # EOF
    THEN LET c == read1(t, F.pos)
         IN [F EXCEPT !.cur = c, !.pos = advance(t, F.pos), !.token = cat(F.token, c)]
    ELSE [F EXCEPT !.name = drop_last(F.token),
                   !.token = <<>>,
                   !.state = "NAME",
                   !.pc = IF F.depth # 0 THEN "read_attrs" ELSE "return"]

\* One iteration of the key loop, or its exit: name = token[:-1].strip()
read_name(t, F) ==
    IF F.cur # "," /\ F.cur # EOF
    THEN LET c == read1(t, F.pos)
         IN [F EXCEPT !.cur = c, !.pos = advance(t, F.pos), !.token = cat(F.token, c)]
    ELSE [F EXCEPT !.name = strip(drop_last(F.token)),
                   !.token = <<>>,
                   !.state = "NAME",
                   !.pc = IF F.depth # 0 THEN "read_attrs" ELSE "return"]

\* scan_char keeping the '{' from depth 2 on (depth > 1 for depth > 2).
scan_char_keeps_outer_brace(F, c) ==
    IF c = "{"
    THEN [F EXCEPT !.depth = F.depth + 1,
                   !.token = IF F.depth + 1 > 1 THEN Append(F.token, "{") ELSE F.token]
    ELSE IF c = "}"
    THEN IF F.state = "VALUE" /\ F.depth - 1 = 1
         THEN [F EXCEPT !.depth = F.depth - 1,
                        !.attrs = dict_set(F.attrs, F.attr_name, strip(F.token)),
                        !.token = <<>>,
                        !.state = "NONE"]
         ELSE [F EXCEPT !.depth = F.depth - 1, !.token = Append(F.token, "}")]
    ELSE IF F.state = "NAME" /\ c = "="
    THEN [F EXCEPT !.attr_name = strip(F.token), !.token = <<>>, !.state = "VALUE"]
    ELSE IF F.state = "NONE" /\ c = ","
    THEN [F EXCEPT !.state = "NAME"]
    ELSE IF F.state # "NONE"
    THEN [F EXCEPT !.token = Append(F.token, c)]
    ELSE F

\* scan_char committing on any '}' that leaves depth <= 1 outside state NONE
\* (state != NONE and depth <= 1 for state == VALUE and depth == 1).
scan_char_loose_commit(F, c) ==
    IF c = "{"
    THEN [F EXCEPT !.depth = F.depth + 1,
                   !.token = IF F.depth + 1 > 2 THEN Append(F.token, "{") ELSE F.token]
    ELSE IF c = "}"
    THEN IF F.state # "NONE" /\ F.depth - 1 <= 1
         THEN [F EXCEPT !.depth = F.depth - 1,
                        !.attrs = dict_set(F.attrs, F.attr_name, strip(F.token)),
                        !.token = <<>>,
                        !.state = "NONE"]
         ELSE [F EXCEPT !.depth = F.depth - 1, !.token = Append(F.token, "}")]
    ELSE IF F.state = "NAME" /\ c = "="
    THEN [F EXCEPT !.attr_name = strip(F.token), !.token = <<>>, !.state = "VALUE"]
    ELSE IF F.state = "NONE" /\ c = ","
    THEN [F EXCEPT !.state = "NAME"]
    ELSE IF F.state # "NONE"
    THEN [F EXCEPT !.token = Append(F.token, c)]
    ELSE F

\* scan_char taking every ',' outside state NAME as the start of a name
\* (state != NAME and cur == ',' for state == NONE and cur == ',').
scan_char_comma_in_value(F, c) ==
    IF c = "{"
    THEN [F EXCEPT !.depth = F.depth + 1,
                   !.token = IF F.depth + 1 > 2 THEN Append(F.token, "{") ELSE F.token]
    ELSE IF c = "}"
    THEN IF F.state = "VALUE" /\ F.depth - 1 = 1
         THEN [F EXCEPT !.depth = F.depth - 1,
                        !.attrs = dict_set(F.attrs, F.attr_name, strip(F.token)),
                        !.token = <<>>,
                        !.state = "NONE"]
         ELSE [F EXCEPT !.depth = F.depth - 1, !.token = Append(F.token, "}")]
    ELSE IF F.state = "NAME" /\ c = "="
    THEN [F EXCEPT !.attr_name = strip(F.token), !.token = <<>>, !.state = "VALUE"]
    ELSE IF F.state # "NAME" /\ c = ","
    THEN [F EXCEPT !.state = "NAME"]
    ELSE IF F.state # "NONE"
    THEN [F EXCEPT !.token = Append(F.token, c)]
    ELSE F

\* The if/elif chain of the body loop on the character c just read.
scan_char(F, c) ==
    IF c = "{"
    THEN [F EXCEPT !.depth = F.depth + 1,
                   !.token = IF F.depth + 1 > 2 THEN Append(F.token, "{") ELSE F.token]
    ELSE IF c = "}"
    THEN IF F.state = "VALUE" /\ F.depth - 1 = 1
         THEN [F EXCEPT !.depth = F.depth - 1,
                        !.attrs = dict_set(F.attrs, F.attr_name, strip(F.token)),
                        !.token = <<>>,
                        !.state = "NONE"]
         ELSE [F EXCEPT !.depth = F.depth - 1, !.token = Append(F.token, "}")]
    ELSE IF F.state = "NAME" /\ c = "="
    THEN [F EXCEPT !.attr_name = strip(F.token), !.token = <<>>, !.state = "VALUE"]
    ELSE IF F.state = "NONE" /\ c = ","
    THEN [F EXCEPT !.state = "NAME"]
    ELSE IF F.state # "NONE"
    THEN [F EXCEPT !.token = Append(F.token, c)]
    ELSE F

\* read_attrs reading one character past the brace that closes the entry.
read_attrs_lookahead(t, F) ==
    LET c == read1(t, F.pos)
        G == [F EXCEPT !.cur = c, !.pos = advance(t, F.pos)]
    IN IF c = EOF
       THEN [G EXCEPT !.pc = "return"]
       ELSE LET H == scan_char(G, c)
            IN IF H.depth # 0
               THEN [H EXCEPT !.pc = "read_attrs"]
               ELSE [H EXCEPT !.pc = "return", !.pos = advance(t, H.pos)]

\* read_attrs leaving the body loop also at the '@' of a next entry
\* (if cur == '' or cur == '@': break).
read_attrs_stops_at_next_entry(t, F) ==
    LET c == read1(t, F.pos)
        G == [F EXCEPT !.cur = c, !.pos = advance(t, F.pos)]
    IN IF c = EOF \/ c = "@"
       THEN [G EXCEPT !.pc = "return"]
       ELSE LET H == scan_char(G, c)
            IN [H EXCEPT !.pc = IF H.depth # 0 THEN "read_attrs" ELSE "return"]

\* read_attrs without the test for the end of the stream (if cur == '': break):
\* the empty string read there goes through the if/elif chain, which appends
\* it to the token or drops it, and the loop goes on.
read_attrs_no_break(t, F) ==
    LET c == read1(t, F.pos)
        G == [F EXCEPT !.cur = c, !.pos = advance(t, F.pos)]
        H == IF c = EOF THEN G ELSE scan_char(G, c)
    IN [H EXCEPT !.pc = IF H.depth # 0 THEN "read_attrs" ELSE "return"]

\* One iteration of: while depth != 0: cur = f.read(1); if cur == '': break; ...
read_attrs(t, F) ==
    LET c == read1(t, F.pos)
        G == [F EXCEPT !.cur = c, !.pos = advance(t, F.pos)]
    IN IF c = EOF
       THEN [G EXCEPT !.pc = "return"]
       ELSE LET H == scan_char(G, c)
            IN [H EXCEPT !.pc = IF H.depth # 0 THEN "read_attrs" ELSE "return"]

\* make_entry without its depth test: whatever was collected is returned.
make_entry_any_depth(F) ==
    IF F.typ = S_book THEN BookEntry(F.name, F.typ, F.attrs)
    ELSE IF F.typ = S_article THEN ArticleEntry(F.name, F.typ, F.attrs)
    ELSE IF F.typ = S_inproceedings THEN InProceedingsEntry(F.name, F.typ, F.attrs)
    ELSE BibloEntry(F.name, F.typ, F.attrs)

\* if depth != 0: return None, then the choice of the entry class by typ.
make_entry(F) ==
    IF F.depth # 0 THEN None
    ELSE IF F.typ = S_book THEN BookEntry(F.name, F.typ, F.attrs)
    ELSE IF F.typ = S_article THEN ArticleEntry(F.name, F.typ, F.attrs)
    ELSE IF F.typ = S_inproceedings THEN InProceedingsEntry(F.name, F.typ, F.attrs)
    ELSE BibloEntry(F.name, F.typ, F.attrs)

return_entry(t, F) == [F EXCEPT !.entry = make_entry(F), !.pc = "done"]

step(t, F) ==
    CASE F.pc = "find_at" -> find_at(t, F)
      [] F.pc = "read_type" -> read_type(t, F)
      [] F.pc = "read_name" -> read_name(t, F)
      [] F.pc = "read_attrs" -> read_attrs(t, F)
      [] F.pc = "return" -> return_entry(t, F)
      [] OTHER -> F

\* read_entry as a function: the frame at its return, from position p of text t.
RECURSIVE run(_, _)
run(t, F) == IF F.pc = "done" THEN F ELSE run(t, step(t, F))

read_entry(t, p) == run(t, new_frame(p))

\* ---------------------------------------------------- string literals
S_misc == <<"m", "i", "s", "c">>
S_Book == <<"B", "o", "o", "k">>
S_abc == <<"a", "b", "c">>
S_location == <<"l", "o", "c", "a", "t", "i", "o", "n">>
S_title == <<"t", "i", "t", "l", "e">>
S_journal == <<"j", "o", "u", "r", "n", "a", "l">>
S_booktitle == <<"b", "o", "o", "k", "t", "i", "t", "l", "e">>
S_Proceedings == <<"P", "r", "o", "c", "e", "e", "d", "i", "n", "g", "s">>
S_Proc == <<"P", "r", "o", "c", ".">>
S_Journal == <<"J", "o", "u", "r", "n", "a", "l">>
S_J == <<"J", ".">>
S_transactions == <<"t", "r", "a", "n", "s", "a", "c", "t", "i", "o", "n", "s">>
S_biomedical == <<"b", "i", "o", "m", "e", "d", "i", "c", "a", "l">>
S_engineering == <<"e", "n", "g", "i", "n", "e", "e", "r", "i", "n", "g">>

\* ------------------------------------------------- validators and fixers
Upper == <<"A", "B", "C", "D", "E", "F", "G", "H", "I", "J", "K", "L", "M",
           "N", "O", "P", "Q", "R", "S", "T", "U", "V", "W", "X", "Y", "Z">>
Lower == <<"a", "b", "c", "d", "e", "f", "g", "h", "i", "j", "k", "l", "m",
           "n", "o", "p", "q", "r", "s", "t", "u", "v", "w", "x", "y", "z">>

lower_char(c) ==
    IF \E i \in 1..26 : Upper[i] = c
    THEN Lower[CHOOSE i \in 1..26 : Upper[i] = c]
    ELSE c
upper_char(c) ==
    IF \E i \in 1..26 : Lower[i] = c
    THEN Upper[CHOOSE i \in 1..26 : Lower[i] = c]
    ELSE c

\* str.lower()
lower(s) == [i \in 1..Len(s) |-> lower_char(s[i])]

\* a.count(',')
count_commas(s) == Cardinality({i \in 1..Len(s) : s[i] = ","})

\* str.split(): the maximal runs of non-whitespace characters, in order.
RECURSIVE split_from(_, _, _)
split_from(s, i, w) ==
    IF i > Len(s) THEN (IF w = <<>> THEN <<>> ELSE <<w>>)
    ELSE IF s[i] \in White
         THEN (IF w = <<>> THEN <<>> ELSE <<w>>) \o split_from(s, i + 1, <<>>)
         ELSE split_from(s, i + 1, Append(w, s[i]))
split(s) == split_from(s, 1, <<>>)

\* The title-casing capability: the first letter of every word in upper case.
titlecase(s) ==
    [i \in 1..Len(s) |->
        IF i = 1 \/ s[i - 1] \in White THEN upper_char(s[i]) ELSE s[i]]

\* The substitution table of the module sub_words: word -> abbreviation.
sub_words == <<
    <<S_Proceedings, S_Proc>>,
    <<S_Journal, S_J>> >>

ieee_words == <<S_transactions, S_journal, S_biomedical, S_engineering>>

in_seq(x, q) == \E i \in 1..Len(q) : q[i] = x

\* The location predicate with its upper limit forgotten: a.count(',') >= 1.
location_has_some_elements(a) == count_commas(a) >= 1

location_has_two_or_three_elements(a) == count_commas(a) = 1 \/ count_commas(a) = 2

is_titlecase(a) == titlecase(a) = a

is_ieee_abrev(s) ==
    LET subs == [i \in 1..Len(sub_words) |-> lower(sub_words[i][1])]
    IN \A i \in 1..Len(split(s)) :
           /\ ~in_seq(lower(split(s)[i]), ieee_words)
           /\ ~in_seq(lower(split(s)[i]), subs)

fix_titlecase(a) == titlecase(a)

\* new_words: every key of sub_words and its lower-case form, to the value.
new_words ==
    LET n == Len(sub_words)
    IN [i \in 1..(2 * n) |->
           IF i <= n THEN sub_words[i]
           ELSE <<lower(sub_words[i - n][1]), sub_words[i - n][2]>>]

RECURSIVE join_fixed(_, _)
join_fixed(ws, i) ==
    IF i > Len(ws) THEN <<>>
    ELSE <<" ">> \o (IF dict_has(new_words, lower(ws[i]))
                     THEN dict_get(new_words, lower(ws[i]))
                     ELSE ws[i])
         \o join_fixed(ws, i + 1)

fix_ieee_abrev(s) == strip(join_fixed(split(s), 1))

\* The __name__ of each validator, as it appears in a message.
n_location == "Location has form 'City, Country' or 'City, State, Country'"
n_titlecase == "Is Title Case"
n_ieee == "specials words are acronyms"

apply_validator(v, a) ==
    CASE v = n_location -> location_has_two_or_three_elements(a)
      [] v = n_titlecase -> is_titlecase(a)
      [] v = n_ieee -> is_ieee_abrev(a)

apply_fixer(x, a) ==
    CASE x = "fix_titlecase" -> fix_titlecase(a)
      [] x = "fix_ieee_abrev" -> fix_ieee_abrev(a)

\* The class attribute validators: attribute -> list of validators, in dict order.
validators(kind) ==
    CASE kind = "BookEntry" ->
             << <<S_location, <<n_location>> >>, <<S_title, <<n_titlecase>> >> >>
      [] kind = "ArticleEntry" -> << <<S_journal, <<n_ieee>> >> >>
      [] kind = "InProceedingsEntry" -> << <<S_booktitle, <<n_titlecase>> >> >>
      [] OTHER -> <<>>

\* The fixer tables with BookEntry.fixers left empty.
fixers_without_book_title(kind) ==
    CASE kind = "ArticleEntry" -> << <<S_journal, <<"fix_ieee_abrev">> >> >>
      [] kind = "InProceedingsEntry" -> << <<S_booktitle, <<"fix_titlecase">> >> >>
      [] OTHER -> <<>>

\* The class attribute fixers: attribute -> list of fixers.
fixers(kind) ==
    CASE kind = "BookEntry" -> << <<S_title, <<"fix_titlecase">> >> >>
      [] kind = "ArticleEntry" -> << <<S_journal, <<"fix_ieee_abrev">> >> >>
      [] kind = "InProceedingsEntry" -> << <<S_booktitle, <<"fix_titlecase">> >> >>
      [] OTHER -> <<>>

\* ------------------------------------------------------------ BibloEntry
\* "%s missing" % attr
missing_msg(attr) == <<attr, " missing">>
\* "failed to validate %s on %s" % (validator.__name__, attr)
failed_msg(v, attr) == <<"failed to validate ", v, " on ", attr>>

\* The messages of the validators vs[j..] that fail on the value a of attr.
RECURSIVE failures(_, _, _, _)
failures(vs, j, attr, a) ==
    IF j > Len(vs) THEN <<>>
    ELSE (IF ~apply_validator(vs[j], a) THEN <<failed_msg(vs[j], attr)>> ELSE <<>>)
         \o failures(vs, j + 1, attr, a)

\* validate's loop with the 'missing' branch left out.
RECURSIVE collect_errors_no_missing(_, _, _)
collect_errors_no_missing(e, vd, i) ==
    IF i > Len(vd) THEN <<>>
    ELSE (IF ~dict_has(e.attrs, vd[i][1])
          THEN <<>>
          ELSE failures(vd[i][2], 1, vd[i][1], dict_get(e.attrs, vd[i][1])))
         \o collect_errors_no_missing(e, vd, i + 1)

\* The loop of validate over self.validators.keys(), from its i-th key on.
RECURSIVE collect_errors(_, _, _)
collect_errors(e, vd, i) ==
    IF i > Len(vd) THEN <<>>
    ELSE (IF ~dict_has(e.attrs, vd[i][1])
          THEN <<missing_msg(vd[i][1])>>
          ELSE failures(vd[i][2], 1, vd[i][1], dict_get(e.attrs, vd[i][1])))
         \o collect_errors(e, vd, i + 1)

\* validate without its first statement, self.errors = [].
validate_accumulating(e) ==
    [e EXCEPT !.errors = e.errors \o collect_errors(e, validators(e.kind), 1)]

\* validate: the entry with its errors recomputed; it returns errors == [].
validate(e) == [e EXCEPT !.errors = collect_errors(e, validators(e.kind), 1)]

\* The fixers fx[j..] applied in turn to the value a.
RECURSIVE apply_fixers(_, _, _)
apply_fixers(fx, j, a) ==
    IF j > Len(fx) THEN a ELSE apply_fixers(fx, j + 1, apply_fixer(fx[j], a))

\* The loop of print over self.attrs.keys(), from the i-th item on.
RECURSIVE print_attrs(_, _)
print_attrs(e, i) ==
    IF i > Len(e.attrs) THEN <<>>
    ELSE LET key == e.attrs[i][1]
             temp == IF dict_has(fixers(e.kind), key)
                     THEN apply_fixers(dict_get(fixers(e.kind), key), 1, e.attrs[i][2])
                     ELSE e.attrs[i][2]
         IN <<",", "\n", " ", " ">> \o key \o <<" ", "=", " ", "{">> \o temp \o <<"}">>
            \o print_attrs(e, i + 1)

\* The attributes from the i-th item on, each fixed value stored back.
RECURSIVE fixed_attrs(_, _)
fixed_attrs(e, i) ==
    IF i > Len(e.attrs) THEN <<>>
    ELSE LET key == e.attrs[i][1]
             temp == IF dict_has(fixers(e.kind), key)
                     THEN apply_fixers(dict_get(fixers(e.kind), key), 1, e.attrs[i][2])
                     ELSE e.attrs[i][2]
         IN <<<<key, temp>>>> \o fixed_attrs(e, i + 1)

\* print storing each fixed value: self.attrs[key] = temp.
after_print_fixing_in_place(e) == [e EXCEPT !.attrs = fixed_attrs(e, 1)]

\* The entry after print: print assigns to its locals res and temp only.
after_print(e) == e

\* print: the text written to standard output, the newline of print() included.
print(e) ==
    <<"@">> \o e.typ \o <<" ", "{">> \o e.name \o print_attrs(e, 1)
    \o <<"\n", "}">> \o <<"\n">>

\* --------------------------------------------------------------- actions
no_mark == [eq |-> 0, open |-> 0, close |-> 0, name |-> <<>>]

\* The positions of the '=' that closed a name, of a '{' read after it in
\* state VALUE at depth 1, and of the '}' that committed the value, as the
\* body loop goes from frame F to frame G.
observe(m, F, G) ==
    IF F.state = "NAME" /\ G.state = "VALUE"
    THEN [eq |-> G.pos, open |-> 0, close |-> 0, name |-> G.attr_name]
    ELSE IF F.state = "VALUE" /\ F.depth = 1 /\ G.depth = 2
    THEN [m EXCEPT !.open = G.pos]
    ELSE IF F.state = "VALUE" /\ G.state = "NONE"
    THEN [m EXCEPT !.close = G.pos]
    ELSE m

FindAt ==
    /\ pc = "find_at"
    /\ set_frame(find_at(f, Frame))
    /\ UNCHANGED <<f, valid, out, main_vars, input, mark>>

ReadType ==
    /\ pc = "read_type"
    /\ set_frame(read_type(f, Frame))
    /\ UNCHANGED <<f, valid, out, main_vars, input, mark>>

ReadName ==
    /\ pc = "read_name"
    /\ set_frame(read_name(f, Frame))
    /\ UNCHANGED <<f, valid, out, main_vars, input, mark>>

ReadAttrs ==
    /\ pc = "read_attrs"
    /\ set_frame(read_attrs(f, Frame))
    /\ mark' = observe(mark, Frame, read_attrs(f, Frame))
    /\ UNCHANGED <<f, valid, out, main_vars, input>>

Return ==
    /\ pc = "return"
    /\ set_frame(return_entry(f, Frame))
    /\ UNCHANGED <<f, valid, out, main_vars, input, mark>>

NextRead == FindAt \/ ReadType \/ ReadName \/ ReadAttrs \/ Return

\* ------------------------------------------ one call on an arbitrary text
Alphabet == {"@", "{", "}", ",", "=", " ", "a"}

Texts == UNION {[1..n -> Alphabet] : n \in 0..MaxLen}

\* The program before its first read_entry call, outside any driver loop.
idle ==
    /\ valid = TRUE
    /\ out = <<>>
    /\ fix = FALSE
    /\ names = <<>>
    /\ entries = <<>>
    /\ main = "call"
    /\ idx = 1
    /\ log = <<>>
    /\ mark = no_mark

InitRead ==
    /\ f \in Texts
    /\ input = <<>>
    /\ frame_is(new_frame(0))
    /\ idle

SpecRead == InitRead /\ [][NextRead]_vars

\* ---------------------------------------------------------- entry texts
\* An entry text is put together from a description d:
\*   d.lead @ d.tag { d.key , item , ... , item d.tail d.trail
\* where an item is  name = pre { value } post, d.tail closes the entry and
\* d.trail is what follows it in the file.
MaxAttrs == 2

Items == {
    [name |-> <<"n", " ">>, pre |-> <<" ">>, value |-> <<"v">>, post |-> <<>>],
    [name |-> <<" ", "n">>, pre |-> <<>>, value |-> <<" ", "v", " ", "w", " ">>, post |-> <<" ">>],
    [name |-> <<"m">>, pre |-> <<>>, value |-> <<"\\", "{", "H", "\\", "}", "{", "b", "}", "c">>, post |-> <<>>],
    [name |-> <<"n">>, pre |-> <<" ">>, value |-> <<"a", ",", " ", "b", " ", "=", " ", "c">>, post |-> <<>>],
    [name |-> <<"m">>, pre |-> <<"x">>, value |-> <<"v">>, post |-> <<>>],
    [name |-> <<"t", ",", "u">>, pre |-> <<>>, value |-> <<>>, post |-> <<>>] }

Tags == {S_misc, <<" ">> \o S_book \o <<" ">>, S_Book, S_article, S_inproceedings}
Tails == {<<"}">>, <<",", " ", "}">>, <<>>}

\* A body in which the name n comes back after another name.
RepeatedNameSeqs == {
    <<[name |-> <<"n", " ">>, pre |-> <<" ">>, value |-> <<"v">>, post |-> <<>>],
      [name |-> <<"m">>, pre |-> <<>>, value |-> <<"\\", "{", "H", "\\", "}", "{", "b", "}", "c">>, post |-> <<>>],
      [name |-> <<" ", "n">>, pre |-> <<>>, value |-> <<" ", "v", " ", "w", " ">>, post |-> <<" ">>]>> }

ItemSeqs == UNION {[1..k -> Items] : k \in 0..MaxAttrs} \cup RepeatedNameSeqs

\* A plain key at the start of the text, or a key with whitespace around
\* and inside it after some text without '@'.
Heads == {
    [lead |-> <<>>, key |-> S_abc],
    [lead |-> <<"}", " ", "x">>, key |-> <<" ", "a", " ", "b", " ">>] }

Descriptions ==
    {[lead |-> h.lead, tag |-> t, key |-> h.key, items |-> its, tail |-> tl,
      trail |-> <<>>] :
        h \in Heads, t \in Tags, its \in ItemSeqs, tl \in Tails}

render_item(it) ==
    it.name \o <<"=">> \o it.pre \o <<"{">> \o it.value \o <<"}">> \o it.post

RECURSIVE render_items(_, _)
render_items(its, i) ==
    IF i > Len(its) THEN <<>>
    ELSE render_item(its[i])
         \o (IF i < Len(its) THEN <<",">> ELSE <<>>)
         \o render_items(its, i + 1)

render(d) ==
    d.lead \o <<"@">> \o d.tag \o <<"{">> \o d.key \o <<",">>
    \o render_items(d.items, 1) \o d.tail \o d.trail

\* ------------------------------ one call on an entry text, then its methods
MaxCalls == 2

\* entry.validate() on the entry read_entry returned.
CallValidate ==
    /\ pc = "done"
    /\ main = "call"
    /\ entry # None
    /\ Len(log) < MaxCalls
    /\ entry' = validate(entry)
    /\ valid' = (validate(entry).errors = <<>>)
    /\ log' = Append(log, [entry |-> validate(entry), pos |-> pos, did |-> "validate"])
    /\ UNCHANGED <<f, pos, cur, token, depth, name, attr_name, attrs, typ, state, pc,
                   out, fix, names, entries, main, idx, input, mark>>

\* entry.print() on the entry read_entry returned.
CallPrint ==
    /\ pc = "done"
    /\ main = "call"
    /\ entry # None
    /\ Len(log) < MaxCalls
    /\ out' = Append(out, print(entry))
    /\ entry' = after_print(entry)
    /\ log' = Append(log, [entry |-> after_print(entry), pos |-> pos, did |-> "print"])
    /\ UNCHANGED <<f, pos, cur, token, depth, name, attr_name, attrs, typ, state, pc,
                   valid, fix, names, entries, main, idx, input, mark>>

InitEntry ==
    /\ input \in {<<d>> : d \in Descriptions}
    /\ f = render(input[1])
    /\ frame_is(new_frame(0))
    /\ idle

NextEntry == FindAt \/ ReadType \/ ReadName \/ ReadAttrs \/ Return \/ CallPrint

SpecEntry == InitEntry /\ [][NextEntry]_vars

\* --------------------------------------- the methods on a given entry
MaxPairs == 2

\* Attribute items: the names the validators know with values their
\* predicates tell apart, and a name no validator knows.
AttrItems == {
    <<S_location, <<"A">>>>,
    <<S_location, <<"a", ",", "b">>>>,
    <<S_location, <<"A", ",", "B", ",", "C">>>>,
    <<S_location, <<"A", ",", "B", ",", "C", ",", "D">>>>,
    <<S_location, <<",", ",", "B", ",", ",">>>>,
    <<S_title, <<"A">>>>,
    <<S_title, <<"a", ",", "b">>>>,
    <<S_journal, <<"A">>>>,
    <<S_journal, <<"J", "o", "u", "r", "n", "a", "l", " ", "x">>>>,
    <<S_journal, <<"P", "r", "o", "c", "e", "e", "d", "i", "n", "g", "s">>>>,
    <<S_booktitle, <<"A">>>>,
    <<S_booktitle, <<"a", " ", "b">>>>,
    <<<<"n">>, <<"A">>>> }
EntryTags == {S_book, S_article, S_inproceedings, S_misc}

\* The dicts read_entry can build: up to MaxPairs items with different keys.
Dicts ==
    {d \in UNION {[1..n -> AttrItems] : n \in 0..MaxPairs} :
        \A i, j \in 1..Len(d) : i # j => d[i][1] # d[j][1]}

\* The state in which read_entry has just returned the entry of key "abc",
\* tag t and attributes d.
returned(t, d) ==
    LET F == [new_frame(0) EXCEPT !.cur = "}", !.name = S_abc, !.typ = t, !.attrs = d,
                                  !.pc = "return"]
    IN return_entry(<<>>, F)

InitValidate ==
    /\ f = <<>>
    /\ input = <<>>
    /\ \E t \in EntryTags, d \in Dicts : frame_is(returned(t, d))
    /\ idle

NextValidate == CallValidate \/ CallPrint

SpecValidate == InitValidate /\ [][NextValidate]_vars

\* ---------------------------------------------------------------- __main__
MaxEntries == 2

\* Order of two keys as Python compares str: character by character.
char_rank(c) == IF \E i \in 1..26 : Lower[i] = c
                THEN CHOOSE i \in 1..26 : Lower[i] = c
                ELSE 0
RECURSIVE str_less(_, _)
str_less(a, b) ==
    IF a = <<>> THEN b # <<>>
    ELSE IF b = <<>> THEN FALSE
    ELSE IF a[1] = b[1] THEN str_less(Tail(a), Tail(b))
    ELSE char_rank(a[1]) < char_rank(b[1])

RECURSIVE insert_by_name(_, _)
insert_by_name(es, e) ==
    IF es = <<>> THEN <<e>>
    ELSE IF str_less(e.name, es[1].name) THEN <<e>> \o es
    ELSE <<es[1]>> \o insert_by_name(Tail(es), e)

RECURSIVE sorted_by_name(_)
sorted_by_name(es) ==
    IF es = <<>> THEN <<>>
    ELSE insert_by_name(sorted_by_name(SubSeq(es, 1, Len(es) - 1)), es[Len(es)])

\* entries = sorted(entries, key=...): the sorted list kept.
after_sorted_kept(es) == sorted_by_name(es)

\* sorted(entries, key=...) as a statement: its result is dropped.
after_sorted(es) == es

\* entry = read_entry(f): the next call starts where the stream stands.
call_read_entry ==
    /\ set_frame(new_frame(pos))
    /\ mark' = no_mark

logged(e, did) == Append(log, [entry |-> e, pos |-> pos, did |-> did])

\* if fix: entries += [entry]
Collect ==
    /\ main = "loop" /\ pc = "done" /\ entry # None
    /\ fix
    /\ entries' = Append(entries, entry)
    /\ log' = logged(entry, "collected")
    /\ call_read_entry
    /\ UNCHANGED <<f, valid, out, fix, names, main, idx, input>>

\* elif entry.name in names: print("WARNING: duplicate entry ...")
WarnDuplicate ==
    /\ main = "loop" /\ pc = "done" /\ entry # None
    /\ ~fix
    /\ in_seq(entry.name, names)
    /\ out' = Append(out, <<"WARNING: duplicate entry ", entry.name, ", taking first">>)
    /\ log' = logged(entry, "duplicate")
    /\ call_read_entry
    /\ UNCHANGED <<f, valid, fix, names, entries, main, idx, input>>

\* The validation branch tried before the test entry.name in names.
ReportErrors_before_duplicate_test ==
    /\ main = "loop" /\ pc = "done" /\ entry # None
    /\ ~fix
    /\ validate(entry).errors # <<>>
    /\ valid' = FALSE
    /\ out' = Append(out, <<"Check ", entry.name, " for: ", validate(entry).errors>>)
    /\ names' = Append(names, entry.name)
    /\ log' = logged(validate(entry), "failed")
    /\ call_read_entry
    /\ UNCHANGED <<f, fix, entries, main, idx, input>>

\* elif not entry.validate(): print("Check ..."); names += [entry.name]
ReportErrors ==
    /\ main = "loop" /\ pc = "done" /\ entry # None
    /\ ~fix
    /\ ~in_seq(entry.name, names)
    /\ validate(entry).errors # <<>>
    /\ valid' = FALSE
    /\ out' = Append(out, <<"Check ", entry.name, " for: ", validate(entry).errors>>)
    /\ names' = Append(names, entry.name)
    /\ log' = logged(validate(entry), "failed")
    /\ call_read_entry
    /\ UNCHANGED <<f, fix, entries, main, idx, input>>

\* entry.validate() returned True: nothing is printed, nothing recorded.
Accept ==
    /\ main = "loop" /\ pc = "done" /\ entry # None
    /\ ~fix
    /\ ~in_seq(entry.name, names)
    /\ validate(entry).errors = <<>>
    /\ valid' = TRUE
    /\ log' = logged(validate(entry), "passed")
    /\ call_read_entry
    /\ UNCHANGED <<f, out, fix, names, entries, main, idx, input>>

\* while entry != None ends; sorted(...); the print loop starts.
EndOfLoop ==
    /\ main = "loop" /\ pc = "done" /\ entry = None
    /\ entries' = after_sorted(entries)
    /\ main' = "print"
    /\ idx' = 1
    /\ log' = logged(None, "end")
    /\ UNCHANGED <<f, frame_vars, valid, out, fix, names, input, mark>>

\* for e in entries: e.print()
PrintNext ==
    /\ main = "print"
    /\ idx <= Len(entries)
    /\ out' = Append(out, print(entries[idx]))
    /\ entries' = [entries EXCEPT ![idx] = after_print(entries[idx])]
    /\ idx' = idx + 1
    /\ UNCHANGED <<f, frame_vars, valid, fix, names, main, log, input, mark>>

\* The entries of a file: an attribute-less misc entry or a book entry with
\* one attribute (and neither location nor title), the key a or b, closed
\* or not, followed or not by text.
FileShapes == {
    [tag |-> S_misc, items |-> <<>>],
    [tag |-> S_book,
     items |-> <<[name |-> <<"n", " ">>, pre |-> <<" ">>, value |-> <<"v">>, post |-> <<>>]>>] }

FileDescriptions ==
    {[lead |-> <<>>, tag |-> sh.tag, key |-> k, items |-> sh.items, tail |-> tl, trail |-> tr] :
        sh \in FileShapes, k \in {<<"a">>, <<"b">>}, tl \in {<<"}">>, <<>>},
        tr \in {<<>>, <<"\n", "}">>}}

RECURSIVE render_file(_, _)
render_file(ds, i) ==
    IF i > Len(ds) THEN <<>> ELSE render(ds[i]) \o render_file(ds, i + 1)

Init ==
    /\ input \in UNION {[1..n -> FileDescriptions] : n \in 0..MaxEntries}
    /\ f = render_file(input, 1)
    /\ frame_is(new_frame(0))
    /\ valid = TRUE
    /\ out = <<>>
    /\ fix \in BOOLEAN
    /\ names = <<>>
    /\ entries = <<>>
    /\ main = "loop"
    /\ idx = 1
    /\ log = <<>>
    /\ mark = no_mark

Next ==
    \/ FindAt \/ ReadType \/ ReadName \/ ReadAttrs \/ Return
    \/ Collect \/ WarnDuplicate \/ ReportErrors \/ Accept \/ EndOfLoop \/ PrintNext

Spec == Init /\ [][Next]_vars

\* The files of the whole-run properties: entries of one key, a book (which
\* fails validation) closed, closed and followed by text, or not closed, and
\* a misc entry (which passes) closed or not closed.
RunDescriptions ==
    {d \in FileDescriptions :
        /\ d.key = <<"a">>
        /\ d.tail = <<>> => d.trail = <<>>
        /\ d.tag = S_misc => d.trail = <<>>}

InitRun ==
    /\ input \in UNION {[1..n -> RunDescriptions] : n \in 0..MaxEntries}
    /\ f = render_file(input, 1)
    /\ frame_is(new_frame(0))
    /\ valid = TRUE
    /\ out = <<>>
    /\ fix \in BOOLEAN
    /\ names = <<>>
    /\ entries = <<>>
    /\ main = "loop"
    /\ idx = 1
    /\ log = <<>>
    /\ mark = no_mark

\* The program is sequential: as long as a statement is left to run, it runs.
FairSpec == InitRun /\ [][Next]_vars /\ WF_vars(Next)

\* ------------------------------------------------- text-level vocabulary
\* The least index i > p with t[i] = c, or 0 when there is none.
index_after(t, c, p) ==
    IF \E i \in (p + 1)..Len(t) : t[i] = c
    THEN CHOOSE i \in (p + 1)..Len(t) :
             t[i] = c /\ \A j \in (p + 1)..(i - 1) : t[j] # c
    ELSE 0

\* Number of '{' minus number of '}' in t[i..j].
RECURSIVE brace_balance(_, _, _)
brace_balance(t, i, j) ==
    IF i > j THEN 0
    ELSE brace_balance(t, i, j - 1)
         + (IF t[j] = "{" THEN 1 ELSE IF t[j] = "}" THEN -1 ELSE 0)

\* The index of the '}' matching the '{' at index o, or 0 when there is none.
match_of(t, o) ==
    IF \E j \in (o + 1)..Len(t) : brace_balance(t, o, j) = 0
    THEN CHOOSE j \in (o + 1)..Len(t) :
             /\ brace_balance(t, o, j) = 0
             /\ \A k \in (o + 1)..(j - 1) : brace_balance(t, o, k) # 0
    ELSE 0

at_index(t) == index_after(t, "@", 0)
open_index(t) == IF at_index(t) = 0 THEN 0 ELSE index_after(t, "{", at_index(t))
comma_index(t) == IF open_index(t) = 0 THEN 0 ELSE index_after(t, ",", open_index(t))

\* --------------------------------------------------- well-formed texts
no_char(s, C) == \A i \in 1..Len(s) : s[i] \notin C
is_white(s) == \A i \in 1..Len(s) : s[i] \in White
balanced(s) ==
    /\ brace_balance(s, 1, Len(s)) = 0
    /\ \A i \in 1..Len(s) : brace_balance(s, 1, i) >= 0

\* '@tag{key, n1 = {v1}, ..., nk = {vk}}': no '@' before the entry, no '{'
\* in the tag, no ',' or brace in the key, no '=' or brace in a name, only
\* whitespace between '=' and '{' and after a value's '}', and the closing
\* brace last.  The values hold no brace (plain) or balanced braces.
well_formed(d, plain) ==
    /\ no_char(d.lead, {"@"})
    /\ no_char(d.tag, {"{"})
    /\ no_char(d.key, {",", "{", "}"})
    /\ \A i \in 1..Len(d.items) :
           /\ no_char(d.items[i].name, {"=", "{", "}"})
           /\ is_white(d.items[i].pre)
           /\ is_white(d.items[i].post)
           /\ IF plain THEN no_char(d.items[i].value, {"{", "}"})
                       ELSE balanced(d.items[i].value)
    /\ d.tail = <<"}">>

dict_pairs(d) == {d[i] : i \in 1..Len(d)}

same_entry(a, b) ==
    /\ a # None
    /\ b # None
    /\ a.name = b.name
    /\ a.typ = b.typ
    /\ a.kind = b.kind
    /\ dict_pairs(a.attrs) = dict_pairs(b.attrs)
    /\ Len(a.attrs) = Len(b.attrs)

\* ------------------------------------------------------------------- C1
\* C1: a call during which the stream ran out (the last read returned "")
\* returns None; in particular when the text has no '@', no '{' after the
\* '@', or no ',' after that '{' (the stream ends inside the key), and when
\* it ends inside the attribute body with depth still above 0.
C1_TruncatedIsNone ==
    pc = "done" =>
        /\ (cur = EOF => entry = None)
        /\ (at_index(f) = 0 => entry = None)
        /\ (open_index(f) = 0 => entry = None)
        /\ (comma_index(f) = 0 => entry = None)

\* A call that had read a key and was inside a nested group when the
\* stream ended.
C1_Witness ==
    /\ pc = "done"
    /\ cur = EOF
    /\ comma_index(f) # 0
    /\ name # <<>>
    /\ depth = 2
    /\ entry = None

\* ------------------------------------------------------------------- C2
\* C2: whenever an entry is returned, the last character consumed is the
\* '}' matching the '{' that follows the type tag, every brace after that
\* '{' counted, those of the key included.
C2_ClosesAtMatchingBrace ==
    (pc = "done" /\ entry # None) => pos = match_of(f, open_index(f))

\* ------------------------------------------------------------------- C3
\* C3: for a well-formed text with k >= 1 attributes whose values hold no
\* brace, read_entry returns the entry with the trimmed key, the trimmed
\* tag, and one attribute per trimmed name, each with the trimmed value of
\* the name's last occurrence, and no other attribute.
C3_WellFormedParse ==
    LET d == input[1]
        names_of == {strip(d.items[i].name) : i \in 1..Len(d.items)}
    IN (pc = "done" /\ well_formed(d, TRUE) /\ Len(d.items) >= 1) =>
           /\ entry # None
           /\ entry.name = strip(d.key)
           /\ entry.typ = strip(d.tag)
           /\ {entry.attrs[j][1] : j \in 1..Len(entry.attrs)} = names_of
           /\ Len(entry.attrs) = Cardinality(names_of)
           /\ \A i \in 1..Len(d.items) :
                  (\A j \in (i + 1)..Len(d.items) :
                       strip(d.items[j].name) # strip(d.items[i].name))
                  => dict_get(entry.attrs, strip(d.items[i].name))
                         = strip(d.items[i].value)

\* A well-formed text with two different names, and whitespace to trim
\* around the key, has been read.
C3_Witness ==
    /\ pc = "done"
    /\ well_formed(input[1], TRUE)
    /\ Len(input[1].items) = 2
    /\ entry # None
    /\ Len(entry.attrs) = 2
    /\ entry.name # input[1].key

\* ------------------------------------------------------------------- C4
\* C4 as stated: the value committed for a group opened in state VALUE at
\* depth 1 is the trimmed text between that '{' and its matching '}'.
C4_ValueIsGroupText ==
    (mark.open # 0 /\ mark.close # 0) =>
        dict_get(attrs, mark.name) = strip(SubSeq(f, mark.open + 1, mark.close - 1))

\* C4 amended: the committing '}' is the one matching that '{', and the
\* value is the text between the '=' and the '{' followed by the text
\* between the braces, every character of both kept in order, trimmed; it
\* is the trimmed text between the braces when only whitespace stands
\* between the '=' and the '{'.
C4_ValueIsTextSinceEquals ==
    (mark.open # 0 /\ mark.close # 0) =>
        /\ mark.close = match_of(f, mark.open)
        /\ dict_get(attrs, mark.name)
               = strip(SubSeq(f, mark.eq + 1, mark.open - 1)
                       \o SubSeq(f, mark.open + 1, mark.close - 1))
        /\ (is_white(SubSeq(f, mark.eq + 1, mark.open - 1))
               => dict_get(attrs, mark.name)
                      = strip(SubSeq(f, mark.open + 1, mark.close - 1)))

\* A value with nested braces and a backslash has been committed.
C4_Witness ==
    /\ mark.open # 0
    /\ mark.close # 0
    /\ \E i \in (mark.open + 1)..(mark.close - 1) : f[i] = "{"
    /\ \E i \in (mark.open + 1)..(mark.close - 1) : f[i] = "\\"
    /\ \E i \in (mark.open + 1)..(mark.close - 1) : f[i] = "c"
    /\ dict_has(attrs, mark.name)

\* ------------------------------------------------------------------- C5
\* C5: a well-formed text with k >= 1 attributes, and the same text with
\* ',' and optional whitespace put before its final '}', are read as
\* entries with the same key, tag, kind and attributes.
CommaInserts == {<<",">>, <<",", " ">>, <<",", "\n", " ">>}

C5_TrailingCommaIgnored ==
    LET d == input[1]
    IN (pc = "done" /\ well_formed(d, FALSE) /\ Len(d.items) >= 1) =>
           \A ins \in CommaInserts :
               same_entry(entry,
                          read_entry(render([d EXCEPT !.tail = ins \o <<"}">>]), 0).entry)

C5_Witness ==
    /\ pc = "done"
    /\ well_formed(input[1], FALSE)
    /\ Len(input[1].items) = 2
    /\ entry # None
    /\ Len(entry.attrs) = 2
    /\ same_entry(entry,
                  read_entry(render([input[1] EXCEPT !.tail = <<",", " ", "}">>]), 0).entry)

\* ------------------------------------------------------------------- C6
kind_of_tag(t) ==
    CASE t = <<"b", "o", "o", "k">> -> "BookEntry"
      [] t = <<"a", "r", "t", "i", "c", "l", "e">> -> "ArticleEntry"
      [] t = <<"i", "n", "p", "r", "o", "c", "e", "e", "d", "i", "n", "g", "s">>
             -> "InProceedingsEntry"
      [] OTHER -> "BibloEntry"

\* C6: the kind of a returned entry is decided by the trimmed text between
\* the '@' and the first '{' after it alone: book, article, inproceedings
\* exactly, anything else generic.
C6_KindFromTag ==
    (pc = "done" /\ entry # None) =>
        LET tag == strip(SubSeq(f, at_index(f) + 1, open_index(f) - 1))
        IN /\ entry.typ = tag
           /\ entry.kind = kind_of_tag(tag)

\* A book entry whose tag had whitespace to trim has been returned.
C6_Witness ==
    /\ pc = "done"
    /\ entry # None
    /\ entry.kind = "BookEntry"
    /\ input[1].tag # entry.typ
    /\ entry.attrs # <<>>

\* ------------------------------------------------------------------- C7
\* C7: in report mode every entry whose key is that of an earlier entry of
\* the file gets the duplicate warning and is not validated, whether or
\* not the earlier entry passed validation.
C7_LaterSameKeyIsDuplicate ==
    ~fix =>
        \A i \in 1..Len(log) :
            (/\ log[i].entry # None
             /\ \E j \in 1..(i - 1) : log[j].entry.name = log[i].entry.name)
            => log[i].did = "duplicate"

\* ------------------------------------------------------------------- C8
\* The required attributes of each kind with their predicates.
required(kind) ==
    CASE kind = "BookEntry" -> {<<S_location, n_location>>, <<S_title, n_titlecase>>}
      [] kind = "ArticleEntry" -> {<<S_journal, n_ieee>>}
      [] kind = "InProceedingsEntry" -> {<<S_booktitle, n_titlecase>>}
      [] OTHER -> {}

count_in(q, x) == Cardinality({i \in 1..Len(q) : q[i] = x})

\* C8: once validate has run, errors holds one '<attr> missing' message per
\* required attribute that is absent, one 'failed to validate ...' message
\* per required attribute that is present and fails its predicate, and
\* nothing else; validate returned True iff errors is empty; a generic
\* entry has no error.
C8_ErrorsExact ==
    (\E i \in 1..Len(log) : log[i].did = "validate") =>
        LET req == required(entry.kind)
            absent == {r \in req : ~dict_has(entry.attrs, r[1])}
            failing == {r \in req : /\ dict_has(entry.attrs, r[1])
                                    /\ ~apply_validator(r[2], dict_get(entry.attrs, r[1]))}
        IN /\ \A r \in req :
                  /\ count_in(entry.errors, <<r[1], " missing">>)
                         = (IF r \in absent THEN 1 ELSE 0)
                  /\ count_in(entry.errors, <<"failed to validate ", r[2], " on ", r[1]>>)
                         = (IF r \in failing THEN 1 ELSE 0)
           /\ Len(entry.errors) = Cardinality(absent) + Cardinality(failing)
           /\ valid = (entry.errors = <<>>)
           /\ (entry.kind = "BibloEntry" => entry.errors = <<>>)

\* A book with a location that fails its predicate and no title has been
\* validated.
C8_Witness ==
    /\ \E i \in 1..Len(log) : log[i].did = "validate"
    /\ entry.kind = "BookEntry"
    /\ dict_has(entry.attrs, S_location)
    /\ ~dict_has(entry.attrs, S_title)
    /\ Len(entry.errors) = 2
    /\ ~valid

\* ------------------------------------------------------------------- C9
\* C9: for a well-formed text of a kind without fixers, attribute-less
\* texts such as '@misc{abc,}' included, reading the text print wrote gives
\* an entry with the same key, kind and attributes as the entry printed.
C9_PrintRoundTrip ==
    (/\ pc = "done"
     /\ out # <<>>
     /\ well_formed(input[1], FALSE)
     /\ fixers(entry.kind) = <<>>)
    => same_entry(entry, read_entry(out[1], 0).entry)

\* ------------------------------------------------------------------ C10
all_well_formed == \A i \in 1..Len(input) : well_formed(input[i], FALSE)

\* The number of characters of the file up to the closing brace of entry i.
end_of(i) ==
    Len(render_file(SubSeq(input, 1, i), 1)) - Len(input[i].trail)

\* C10: on a file of n well-formed entries separated by text without '@',
\* the calls return the n entries in file order, each leaving the stream
\* just after that entry's closing brace, and call n + 1 returns None.
C10_EntriesInOrder ==
    all_well_formed =>
        /\ Len(log) <= Len(input) + 1
        /\ (main = "print" => Len(log) = Len(input) + 1)
        /\ \A i \in 1..Len(log) :
               IF i <= Len(input)
               THEN /\ log[i].entry # None
                    /\ log[i].entry.name = strip(input[i].key)
                    /\ log[i].entry.typ = strip(input[i].tag)
                    /\ log[i].entry.attrs = read_entry(render(input[i]), 0).attrs
                    /\ log[i].pos = end_of(i)
               ELSE log[i].entry = None

\* A file of two well-formed entries with text after each has been read
\* to its end.
C10_Witness ==
    /\ all_well_formed
    /\ Len(input) = 2
    /\ main = "print"
    /\ Len(log) = 3
    /\ input[1].trail # <<>>
    /\ input[2].trail # <<>>
    /\ log[2].entry.attrs # <<>>
\* ------------------------------------------------------------------ C11
\* C11: in fix mode the k-th text written is the printed form of the k-th
\* entry the parser returned, whatever the keys (repeated or out of key
\* order); nothing else is written, neither a duplicate warning nor a
\* validation message; and when the run is over every returned entry has
\* been printed, once.
C11_FixPrintsAllInParseOrder ==
    fix =>
        /\ \A i \in 1..Len(log) : log[i].did \in {"collected", "end"}
        /\ Len(out) <= Len(log)
        /\ \A k \in 1..Len(out) :
               /\ log[k].entry # None
               /\ out[k] = print(log[k].entry)
        /\ (main = "print" /\ idx > Len(entries)) =>
               Len(out) = Cardinality({i \in 1..Len(log) : log[i].entry # None})

\* A fix run over a file whose second key sorts before its first has
\* printed both entries.
C11_Witness ==
    /\ fix
    /\ main = "print"
    /\ idx = 3
    /\ Len(out) = 2
    /\ log[1].entry.name = <<"b">>
    /\ log[2].entry.name = <<"a">>

\* ------------------------------------------------------------------ C12
is_comma(c) == c = ","

\* C12: once a book entry with a location has been validated, errors holds
\* the location message exactly when the number of ',' in the value is
\* neither one nor two: zero, three and four commas fail.
C12_LocationOneOrTwoCommas ==
    (/\ \E i \in 1..Len(log) : log[i].did = "validate"
     /\ entry.kind = "BookEntry"
     /\ dict_has(entry.attrs, S_location))
    => LET n == Len(SelectSeq(dict_get(entry.attrs, S_location), is_comma))
       IN /\ in_seq(failed_msg(n_location, S_location), entry.errors) <=> n \notin {1, 2}
          /\ location_has_two_or_three_elements(dict_get(entry.attrs, S_location))
                 <=> n \in {1, 2}

\* A book whose location holds three commas has been validated and has the
\* location message among its errors.
C12_Witness ==
    /\ \E i \in 1..Len(log) : log[i].did = "validate"
    /\ entry.kind = "BookEntry"
    /\ dict_has(entry.attrs, S_location)
    /\ Len(SelectSeq(dict_get(entry.attrs, S_location), is_comma)) = 3
    /\ in_seq(failed_msg(n_location, S_location), entry.errors)

\* ------------------------------------------------------------------ C13
\* The attribute the title fixer of a kind applies to.
title_attr(kind) == IF kind = "BookEntry" THEN S_title ELSE S_booktitle

\* The value of attribute a in the k-th text written, read back from it.
printed_value(k, a) == dict_get(read_entry(out[k], 0).attrs, a)

\* C13: with a title-casing capability that is idempotent, the value print
\* writes for the title of a book, and for the booktitle of an
\* in-proceedings entry, passes 'Is Title Case', and the fixer maps it to
\* itself.
C13_FixedTitleIsTitleCase ==
    \A k \in 1..Len(out) :
        (/\ entry.kind \in {"BookEntry", "InProceedingsEntry"}
         /\ dict_has(entry.attrs, title_attr(entry.kind)))
        => /\ read_entry(out[k], 0).entry # None
           /\ dict_has(read_entry(out[k], 0).attrs, title_attr(entry.kind))
           /\ is_titlecase(printed_value(k, title_attr(entry.kind)))
           /\ fix_titlecase(printed_value(k, title_attr(entry.kind)))
                  = printed_value(k, title_attr(entry.kind))

\* A book whose stored title is not in title case has been printed, and
\* the text written holds another title.
C13_Witness ==
    /\ out # <<>>
    /\ entry.kind = "BookEntry"
    /\ dict_has(entry.attrs, S_title)
    /\ ~is_titlecase(dict_get(entry.attrs, S_title))
    /\ printed_value(1, S_title) # dict_get(entry.attrs, S_title)

\* ------------------------------------------------------------------ C14
\* C14: a ',' or '=' read by the body loop in state VALUE is appended to
\* the token and changes neither the state, the depth, the attribute name
\* nor the attributes; the body loop enters state NAME only from state
\* NONE, on a ','; and a value committed from a brace group is the trimmed
\* text of the group, its ',' and '=' included.
C14_CommaAndEqualsInValue ==
    /\ [][pc = "read_attrs" =>
            /\ (state = "VALUE" /\ cur' \in {",", "="}) =>
                   /\ token' = Append(token, cur')
                   /\ state' = "VALUE"
                   /\ depth' = depth
                   /\ attr_name' = attr_name
                   /\ attrs' = attrs
            /\ (state # "NAME" /\ state' = "NAME") =>
                   (state = "NONE" /\ cur' = ",")]_vars
    /\ [](\A i \in 1..Len(input[1].items) :
             (/\ pc = "done"
              /\ well_formed(input[1], TRUE)
              /\ \A j \in (i + 1)..Len(input[1].items) :
                     strip(input[1].items[j].name) # strip(input[1].items[i].name))
             => dict_get(entry.attrs, strip(input[1].items[i].name))
                    = strip(input[1].items[i].value))

\* The value 'a, b = c' has been stored whole under the name n.
C14_Witness ==
    /\ pc = "done"
    /\ entry # None
    /\ dict_has(entry.attrs, <<"n">>)
    /\ dict_get(entry.attrs, <<"n">>) = <<"a", ",", " ", "b", " ", "=", " ", "c">>

\* ------------------------------------------------------------------ C15
\* C15: however many times validate is called on an entry, errors after
\* each call is the same list: no message of an earlier call is kept, and
\* there is at most one message per required attribute.
C15_ValidateRecomputes ==
    \A i \in 1..Len(log) :
        log[i].did = "validate" =>
            /\ Len(log[i].entry.errors) <= Cardinality(required(log[i].entry.kind))
            /\ \A j \in 1..Len(log) :
                   log[j].did = "validate" => log[j].entry.errors = log[i].entry.errors

\* validate has been called twice in a row on an entry with errors.
C15_Witness ==
    /\ Len(log) = 2
    /\ log[1].did = "validate"
    /\ log[2].did = "validate"
    /\ log[2].entry.errors # <<>>
    /\ entry.errors = log[2].entry.errors

\* ------------------------------------------------------------------ C16
\* C16: after any calls of validate and print the entry has the key, the
\* type tag and the attributes (names, values, order) read_entry gave it,
\* and its kind; print leaves errors as it found them.
C16_MethodsKeepEntry ==
    /\ pc = "done" =>
           /\ entry.name = name
           /\ entry.typ = typ
           /\ entry.attrs = attrs
           /\ entry.kind = kind_of_tag(typ)
    /\ \A i \in 1..Len(log) :
           /\ log[i].entry.name = name
           /\ log[i].entry.typ = typ
           /\ log[i].entry.attrs = attrs
           /\ log[i].did = "print" =>
                  log[i].entry.errors = (IF i = 1 THEN <<>> ELSE log[i - 1].entry.errors)

\* A book with errors has been validated and then printed with a title
\* other than the stored one.
C16_Witness ==
    /\ Len(log) = 2
    /\ log[1].did = "validate"
    /\ log[2].did = "print"
    /\ entry.errors # <<>>
    /\ entry.kind = "BookEntry"
    /\ dict_has(entry.attrs, S_title)
    /\ printed_value(1, S_title) # dict_get(entry.attrs, S_title)

\* ------------------------------------------------------------------ C17
\* The lines print is to write for the items its[i..] of a text: one line
\* for each name at its first occurrence, with the trimmed value of the
\* name's last occurrence.
last_occurrence(its, i) ==
    CHOOSE j \in i..Len(its) :
        /\ strip(its[j].name) = strip(its[i].name)
        /\ \A k \in (j + 1)..Len(its) : strip(its[k].name) # strip(its[i].name)

RECURSIVE attr_lines(_, _)
attr_lines(its, i) ==
    IF i > Len(its) THEN <<>>
    ELSE (IF \E j \in 1..(i - 1) : strip(its[j].name) = strip(its[i].name)
          THEN <<>>
          ELSE <<",", "\n", " ", " ">> \o strip(its[i].name) \o <<" ", "=", " ", "{">>
               \o strip(its[last_occurrence(its, i)].value) \o <<"}">>)
         \o attr_lines(its, i + 1)

\* C17: for a well-formed text whose attributes no fixer applies to, print
\* writes the tag and the key and then one '<name> = {<value>}' line per
\* stored attribute, in the order in which the names first appear in the
\* text, a name written more than once getting one line, at the place of
\* its first occurrence, with the value of its last.
C17_PrintOrder ==
    (pc = "done" /\ out # <<>> /\ well_formed(input[1], FALSE)) =>
        /\ out[1] = <<"@">> \o strip(input[1].tag) \o <<" ", "{">> \o strip(input[1].key)
                    \o attr_lines(input[1].items, 1) \o <<"\n", "}", "\n">>
        /\ Len(entry.attrs)
               = Cardinality({strip(input[1].items[i].name) : i \in 1..Len(input[1].items)})

\* The text with n, m and n again has been printed: two lines, n first,
\* n with the value written last.
C17_Witness ==
    /\ pc = "done"
    /\ out # <<>>
    /\ well_formed(input[1], FALSE)
    /\ Len(input[1].items) = 3
    /\ Len(entry.attrs) = 2
    /\ entry.attrs[1] = << <<"n">>, <<"v", " ", "w">> >>
    /\ entry.attrs[2][1] = <<"m">>

\* ------------------------------------------------------------------ C18
\* The stream position at which the current read_entry call started.
call_start == IF log = <<>> THEN 0 ELSE log[Len(log)].pos

\* C18: every read_entry call returns, its body loop left with depth 0 or
\* at the end of the stream, and depth is never negative; every call that
\* returns an entry has consumed at least one character, a call started
\* at the end of the stream returns None; and the run of the driver ends.
C18_Terminates ==
    /\ [](depth >= 0)
    /\ [](pc = "return" => (depth = 0 \/ cur = EOF))
    /\ [](\A i \in 1..Len(log) :
             log[i].entry # None => log[i].pos > (IF i = 1 THEN 0 ELSE log[i - 1].pos))
    /\ []((main = "loop" /\ pc = "done" /\ call_start = Len(f)) => entry = None)
    /\ ((pc # "done") ~> (pc = "done"))
    /\ <>(main = "print" /\ idx > Len(entries))

\* The run over a file of two entries, the second one not closed, is over.
C18_Witness ==
    /\ main = "print"
    /\ idx > Len(entries)
    /\ Len(input) = 2
    /\ input[2].tail = <<>>
    /\ Len(log) = 2
    /\ log[1].entry # None
    /\ log[2].entry = None
    /\ depth > 0

\* ------------------------------------------------------------------ C19
\* C19: in report mode names holds no key twice and at most one 'Check
\* <key> for: ...' message is written per key; a validation failure does
\* not end the scan: the run ends only on a None, and on a file of
\* well-formed entries every entry is dealt with.
C19_OneCheckPerKey ==
    ~fix =>
        /\ \A i, j \in 1..Len(names) : i # j => names[i] # names[j]
        /\ \A i, j \in 1..Len(out) :
               (/\ i # j
                /\ out[i][1] = "Check "
                /\ out[j][1] = "Check ")
               => out[i][2] # out[j][2]
        /\ Len(names) = Cardinality({i \in 1..Len(log) : log[i].did = "failed"})
        /\ \A i \in 1..Len(log) : log[i].entry = None <=> log[i].did = "end"
        /\ (main = "print" /\ all_well_formed) =>
               /\ Len(log) = Len(input) + 1
               /\ \A i \in 1..Len(input) :
                      log[i].did \in {"failed", "passed", "duplicate"}

\* A report run over two book entries of one key, each with errors: the
\* first was reported, the second taken as a duplicate.
C19_Witness ==
    /\ ~fix
    /\ main = "print"
    /\ Len(log) = 3
    /\ log[1].did = "failed"
    /\ log[2].did = "duplicate"
    /\ log[2].entry.kind = "BookEntry"
    /\ Len(names) = 1
    /\ Len(out) = 2

\* ------------------------------------------------------------------ C20
\* C20: a call that returns None has read the end-of-stream sentinel and
\* left the stream at its end, whatever text followed the entry it was
\* reading; a None is the last value the driver gets from read_entry, so no
\* entry is returned after it, and the scan ends there.
C20_NoneAtEndOfStream ==
    /\ (pc = "done" /\ entry = None) => (cur = EOF /\ pos = Len(f))
    /\ \A i \in 1..Len(log) :
           log[i].entry = None =>
               /\ i = Len(log)
               /\ log[i].pos = Len(f)
               /\ main = "print"
    /\ main = "print" => (entry = None /\ pos = Len(f))

\* The first entry of a file of two is not closed: the first call has
\* returned None at the end of the file and the scan is over.
C20_Witness ==
    /\ Len(input) = 2
    /\ input[1].tail = <<>>
    /\ input[1].trail = <<>>
    /\ main = "print"
    /\ Len(log) = 1
    /\ log[1].entry = None
    /\ pos = Len(f)
    /\ pos > Len(render(input[1]))

====
